---- MODULE Spec2Model ----
(***************************************************************************)
(* Model of the network-filter optimizer (src/src/optimizer.rs):           *)
(* optimize, apply_optimisation, insert_dup and the SimplePatternGroup     *)
(* strategy (select, group_by_criteria, fusion).                           *)
(***************************************************************************)
EXTENDS Naturals, Sequences, FiniteSets, TLC

VARIABLES
    filters,        \* the Vec<NetworkFilter> handed to the current optimize call
    pc,             \* position inside optimize / apply_optimisation
    positive,       \* selected filters (partition_map Left)
    negative,       \* unselected filters, later also singleton groups
    to_fuse,        \* HashMap<String, Vec<NetworkFilter>>
    fused,          \* Vec of fusion results
    output,         \* the Vec returned by optimize
    fusion_calls,   \* the groups fusion has been invoked on, in call order
    round,          \* 1: optimize(F), 2: optimize(optimize(F))
    first_input,    \* F of round 1
    first_output    \* optimize(F) of round 1

vars == <<filters, pc, positive, negative, to_fuse, fused, output,
          fusion_calls, round, first_input, first_output>>

(***************************************************************************)
(* Bounds                                                                  *)
(***************************************************************************)
MaxFilters == 3

(***************************************************************************)
(* Option<T>: None is the empty sequence, Some(x) the one-element one.     *)
(***************************************************************************)
None == <<>>

Some(x) == <<x>>

is_some(o) == o # None

is_none(o) == o = None

(***************************************************************************)
(* NetworkFilterMask: a bitset kept as a natural number.                   *)
(***************************************************************************)
FROM_IMAGE == 1

FROM_SCRIPT == 2

IS_REGEX == 4

IS_COMPLETE_REGEX == 8

FUZZY_MATCH == 16

IS_HOSTNAME_ANCHOR == 32

IS_REDIRECT == 64

IS_CSP == 128

FROM_ANY == FROM_IMAGE + FROM_SCRIPT

\* bitflags contains(), for a one-bit flag
contains(mask, flag) == (mask \div flag) % 2 = 1

\* bitflags set(flag, value)
set(mask, flag, value) ==
    IF value
    THEN IF contains(mask, flag) THEN mask ELSE mask + flag
    ELSE IF contains(mask, flag) THEN mask - flag ELSE mask

(***************************************************************************)
(* FilterPart: Empty | Simple(String) | AnyOf(Vec<String>)                 *)
(***************************************************************************)
Empty == [kind |-> "Empty", pats |-> <<>>]

Simple(s) == [kind |-> "Simple", pats |-> <<s>>]

AnyOf(ss) == [kind |-> "AnyOf", pats |-> ss]

(***************************************************************************)
(* NetworkFilter, the fields the optimizer reads or writes.                *)
(***************************************************************************)
NetworkFilter(part, mask, opt_domains, opt_not_domains, bug, raw_line) ==
    [filter |-> part, mask |-> mask, opt_domains |-> opt_domains,
     opt_not_domains |-> opt_not_domains, bug |-> bug, raw_line |-> raw_line]

is_regex(f) == contains(f.mask, IS_REGEX)

is_complete_regex(f) == contains(f.mask, IS_COMPLETE_REGEX)

is_fuzzy(f) == contains(f.mask, FUZZY_MATCH)

is_hostname_anchor(f) == contains(f.mask, IS_HOSTNAME_ANCHOR)

is_redirect(f) == contains(f.mask, IS_REDIRECT)

is_csp(f) == contains(f.mask, IS_CSP)

has_bug(f) == is_some(f.bug)

(***************************************************************************)
(* SimplePatternGroup::select                                              *)
(***************************************************************************)
select_ignoring_bug(filter) ==
    /\ ~is_fuzzy(filter)
    /\ is_none(filter.opt_domains)
    /\ is_none(filter.opt_not_domains)
    /\ ~is_hostname_anchor(filter)
    /\ ~is_redirect(filter)
    /\ ~is_csp(filter)

select(filter) ==
    /\ ~is_fuzzy(filter)
    /\ is_none(filter.opt_domains)
    /\ is_none(filter.opt_not_domains)
    /\ ~is_hostname_anchor(filter)
    /\ ~is_redirect(filter)
    /\ ~is_csp(filter)
    /\ ~has_bug(filter)

(***************************************************************************)
(* SimplePatternGroup::group_by_criteria: format!("{:b}:{:?}", mask, bool) *)
(***************************************************************************)
RECURSIVE Binary(_)
\* {:b} of an unsigned integer: its binary digits, most significant first
Binary(n) ==
    IF n < 2
    THEN (IF n = 0 THEN "0" ELSE "1")
    ELSE Binary(n \div 2) \o (IF n % 2 = 0 THEN "0" ELSE "1")

\* {:?} of a bool
DebugBool(b) == IF b THEN "true" ELSE "false"

group_by_regex_flags_only(filter) ==
    Binary(set(set(0, IS_REGEX, is_regex(filter)),
               IS_COMPLETE_REGEX, is_complete_regex(filter)))
        \o ":" \o DebugBool(is_complete_regex(filter))

group_by_criteria(filter) ==
    Binary(filter.mask) \o ":" \o DebugBool(is_complete_regex(filter))

(***************************************************************************)
(* SimplePatternGroup::fusion                                              *)
(***************************************************************************)
\* filters.iter().any(|f| matches!(f.filter, FilterPart::Empty))
any_empty(group) == \E i \in 1..Len(group) : group[i].filter.kind = "Empty"

RECURSIVE flat_patterns(_)
\* the for loop of lines 75-81: Simple pushes its string, AnyOf extends
flat_patterns(group) ==
    IF group = <<>> THEN <<>>
    ELSE LET f == Head(group)
             own == IF f.filter.kind = "Empty" THEN <<>> ELSE f.filter.pats
         IN own \o flat_patterns(Tail(group))

fused_part_of(flat) ==
    IF flat = <<>> THEN Empty
    ELSE IF Len(flat) = 1 THEN Simple(flat[1])
    ELSE AnyOf(flat)

fused_filter_part_head_empty(group) ==
    IF group[1].filter.kind = "Empty"
    THEN Empty
    ELSE fused_part_of(flat_patterns(group))

\* lines 70-90: the pattern of the fused filter
fused_filter_part(group) ==
    IF any_empty(group)
    THEN Empty
    ELSE fused_part_of(flat_patterns(group))

fused_mask_keep_regex(group) ==
    set(set(group[1].mask, IS_REGEX,
            \E i \in 1..Len(group) : is_regex(group[i])),
        IS_COMPLETE_REGEX,
        \E i \in 1..Len(group) : is_complete_regex(group[i]))

\* lines 92-95: IS_REGEX forced on, IS_COMPLETE_REGEX if any member has it
fused_mask(group) ==
    set(set(group[1].mask, IS_REGEX, TRUE),
        IS_COMPLETE_REGEX,
        \E i \in 1..Len(group) : is_complete_regex(group[i]))

RECURSIVE raw_lines(_)
\* filters.iter().flat_map(|f| f.raw_line.clone())
raw_lines(group) ==
    IF group = <<>> THEN <<>>
    ELSE Head(group).raw_line \o raw_lines(Tail(group))

RECURSIVE join(_, _)
\* itertools join(sep)
join(strs, sep) ==
    IF strs = <<>> THEN ""
    ELSE IF Len(strs) = 1 THEN strs[1]
    ELSE strs[1] \o sep \o join(Tail(strs), sep)

fused_raw_line_always(group) ==
    Some(join(raw_lines(group), " <+> "))

\* lines 97-104: the source line of the fused filter
fused_raw_line(group) ==
    IF is_some(group[1].raw_line)
    THEN Some(join(raw_lines(group), " <+> "))
    ELSE group[1].raw_line

\* base_filter = &filters[0]; every other field is the clone's
fusion(group) ==
    [group[1] EXCEPT !.filter = fused_filter_part(group),
                     !.mask = fused_mask(group),
                     !.raw_line = fused_raw_line(group)]

(***************************************************************************)
(* apply_optimisation helpers                                              *)
(***************************************************************************)
\* partition_map, Left side
partition_left(fs) == SelectSeq(fs, select)

\* partition_map, Right side
partition_right(fs) == SelectSeq(fs, LAMBDA f : ~select(f))

insert_dup_front(map, k, v) ==
    IF k \in DOMAIN map
    THEN [map EXCEPT ![k] = <<v>> \o @]
    ELSE [x \in DOMAIN map \cup {k} |-> IF x = k THEN <<v>> ELSE map[x]]

\* map.entry(k).or_insert_with(Vec::new).push(v)
insert_dup(map, k, v) ==
    IF k \in DOMAIN map
    THEN [map EXCEPT ![k] = Append(@, v)]
    ELSE [x \in DOMAIN map \cup {k} |-> IF x = k THEN <<v>> ELSE map[x]]

EmptyMap == [x \in {} |-> <<>>]

RECURSIVE group_all(_, _)
\* positive.into_iter().for_each(|f| insert_dup(&mut to_fuse, key(f), f))
group_all(map, fs) ==
    IF fs = <<>> THEN map
    ELSE group_all(insert_dup(map, group_by_criteria(Head(fs)), Head(fs)),
                   Tail(fs))

should_fuse_any(group) == Len(group) >= 1

should_fuse_always(group) == TRUE

should_fuse_above_two(group) == Len(group) > 2

\* if group.len() > 1
should_fuse(group) == Len(group) > 1

append_reversed(a, b) == b \o a

\* fused.append(&mut unfused)
append(a, b) == a \o b

(***************************************************************************)
(* Inputs                                                                  *)
(***************************************************************************)
EligibleFilters ==
    { NetworkFilter(Simple("/ad-"), FROM_ANY, None, None, None, Some("/ad-")),
      NetworkFilter(Simple("/ad."), FROM_ANY, None, None, None, None),
      NetworkFilter(Empty, FROM_ANY, None, None, None, None),
      NetworkFilter(Simple("/ads/*"), FROM_ANY + IS_REGEX, None, None, None,
                    Some("/ads/*")),
      NetworkFilter(AnyOf(<<"/ad.", "/ads/*">>), FROM_ANY + IS_REGEX, None,
                    None, None, Some("/ad. <+> /ads/*")),
      NetworkFilter(Simple("/^ad/"),
                    FROM_ANY + IS_REGEX + IS_COMPLETE_REGEX, None, None, None,
                    Some("/^ad/")),
      NetworkFilter(Simple("/ad-"), FROM_IMAGE, None, None, None,
                    Some("/ad-$image")) }

IneligibleFilters ==
    { NetworkFilter(Simple("/ad-"), FROM_ANY + FUZZY_MATCH, None, None, None,
                    Some("/ad-$fuzzy")),
      NetworkFilter(Simple("/ad-"), FROM_ANY, Some(<<1>>), None, None,
                    Some("/ad-$domain=a.com")),
      NetworkFilter(Simple("/ad-"), FROM_ANY, None, Some(<<1>>), None,
                    Some("/ad-$domain=~a.com")),
      NetworkFilter(Simple("/ad-"), FROM_ANY + IS_HOSTNAME_ANCHOR, None, None,
                    None, Some("||/ad-")),
      NetworkFilter(Simple("/ad-"), FROM_ANY + IS_REDIRECT, None, None, None,
                    None),
      NetworkFilter(Empty, FROM_ANY + IS_CSP, None, None, None, Some("$csp")),
      NetworkFilter(Simple("/ad-"), FROM_ANY, None, None, Some(7),
                    Some("/ad-$bug=7")) }

FilterUniverse == EligibleFilters \cup IneligibleFilters

Inputs == UNION { [1..n -> FilterUniverse] : n \in 0..MaxFilters }

(***************************************************************************)
(* The state machine                                                       *)
(***************************************************************************)
Init ==
    /\ filters \in Inputs
    /\ pc = "start"
    /\ positive = <<>>
    /\ negative = <<>>
    /\ to_fuse = EmptyMap
    /\ fused = <<>>
    /\ output = <<>>
    /\ fusion_calls = <<>>
    /\ round = 1
    /\ first_input = filters
    /\ first_output = <<>>

\* lines 25-32: partition the input with select
Partition ==
    /\ pc = "start"
    /\ positive' = partition_left(filters)
    /\ negative' = partition_right(filters)
    /\ pc' = "group"
    /\ UNCHANGED <<filters, to_fuse, fused, output, fusion_calls, round,
                   first_input, first_output>>

\* lines 34-39: build to_fuse from positive (which is moved out)
Group ==
    /\ pc = "group"
    /\ to_fuse' = group_all(EmptyMap, positive)
    /\ positive' = <<>>
    /\ fused' = <<>>
    /\ pc' = "loop"
    /\ UNCHANGED <<filters, negative, output, fusion_calls, round,
                   first_input, first_output>>

\* lines 40-43: one iteration of the loop over the map, the group is fused.
\* The HashMap yields its entries in an unspecified order.
LoopFuse ==
    /\ pc = "loop"
    /\ \E k \in DOMAIN to_fuse :
        /\ should_fuse(to_fuse[k])
        /\ fused' = Append(fused, fusion(to_fuse[k]))
        /\ fusion_calls' = Append(fusion_calls, to_fuse[k])
        /\ to_fuse' = [x \in DOMAIN to_fuse \ {k} |-> to_fuse[x]]
    /\ UNCHANGED <<filters, pc, positive, negative, output, round,
                   first_input, first_output>>

\* lines 44-46: one iteration of the loop, the group is moved to negative
LoopPass ==
    /\ pc = "loop"
    /\ \E k \in DOMAIN to_fuse :
        /\ ~should_fuse(to_fuse[k])
        /\ negative' = negative \o to_fuse[k]
        /\ to_fuse' = [x \in DOMAIN to_fuse \ {k} |-> to_fuse[x]]
    /\ UNCHANGED <<filters, pc, positive, fused, output, fusion_calls, round,
                   first_input, first_output>>

\* lines 47-51: the loop is over, (fused, negative) is returned
LoopEnd ==
    /\ pc = "loop"
    /\ DOMAIN to_fuse = {}
    /\ pc' = "return"
    /\ UNCHANGED <<filters, positive, negative, to_fuse, fused, output,
                   fusion_calls, round, first_input, first_output>>

\* lines 16-18: optimize appends unfused to fused and returns it
Return ==
    /\ pc = "return"
    /\ output' = append(fused, negative)
    /\ pc' = "done"
    /\ UNCHANGED <<filters, positive, negative, to_fuse, fused,
                   fusion_calls, round, first_input, first_output>>

\* optimize is called again on its own result
Rerun ==
    /\ pc = "done"
    /\ round = 1
    /\ filters' = output
    /\ first_output' = output
    /\ round' = 2
    /\ pc' = "start"
    /\ positive' = <<>>
    /\ negative' = <<>>
    /\ to_fuse' = EmptyMap
    /\ fused' = <<>>
    /\ output' = <<>>
    /\ fusion_calls' = <<>>
    /\ UNCHANGED first_input

\* one call of optimize
Next ==
    \/ Partition
    \/ Group
    \/ LoopFuse
    \/ LoopPass
    \/ LoopEnd
    \/ Return

Spec == Init /\ [][Next]_vars

\* a call of optimize followed by a call on its result
NextRerun ==
    \/ Next
    \/ Rerun

SpecRerun == Init /\ [][NextRerun]_vars

(***************************************************************************)
(* Request matching (NetworkFilter::matches), as far as the optimizer's    *)
(* contract needs it.                                                      *)
(***************************************************************************)
PatternStrings == {"/ad-", "/ad.", "/ads/*", "/^ad/"}

\* cpt: the request type's mask bit; source: the source domain's hash;
\* hits: the pattern strings that match the request's URL
Requests ==
    [cpt : {FROM_IMAGE, FROM_SCRIPT}, source : {1, 2},
     hits : SUBSET PatternStrings]

in_vec(x, v) == \E i \in 1..Len(v) : v[i] = x

\* the request type is allowed by the mask and the source domain by the lists
check_options(f, cpt, source) ==
    /\ contains(f.mask, cpt)
    /\ is_some(f.opt_domains) => in_vec(source, f.opt_domains[1])
    /\ is_some(f.opt_not_domains) => ~in_vec(source, f.opt_not_domains[1])

\* no pattern matches anything, otherwise one of the strings has to match
check_pattern(f, hits) ==
    \/ f.filter.kind = "Empty"
    \/ \E i \in 1..Len(f.filter.pats) : f.filter.pats[i] \in hits

Matches(f, R) ==
    check_options(f, R.cpt, R.source) /\ check_pattern(f, R.hits)

\* R matches some filter of fs
MatchesAny(fs, R) == \E i \in 1..Len(fs) : Matches(fs[i], R)

(***************************************************************************)
(* Vocabulary of the properties                                            *)
(***************************************************************************)
Done == pc = "done"

Count(seq, f) == Cardinality({i \in 1..Len(seq) : seq[i] = f})

\* a filter the strategy must leave alone
Ineligible(f) ==
    \/ is_fuzzy(f)
    \/ is_some(f.opt_domains)
    \/ is_some(f.opt_not_domains)
    \/ is_hostname_anchor(f)
    \/ is_redirect(f)
    \/ is_csp(f)
    \/ has_bug(f)

\* the positions of F holding an eligible filter with grouping key k
Class(F, k) ==
    {i \in 1..Len(F) : ~Ineligible(F[i]) /\ group_by_criteria(F[i]) = k}

ClassKeys(F) ==
    {group_by_criteria(F[i]) : i \in {j \in 1..Len(F) : ~Ineligible(F[j])}}

SharedKeys(F) == {k \in ClassKeys(F) : Cardinality(Class(F, k)) >= 2}

\* the positions of F whose filter is passed through
PassIdx(F) ==
    {i \in 1..Len(F) :
        \/ Ineligible(F[i])
        \/ Cardinality(Class(F, group_by_criteria(F[i]))) = 1}

\* the members of class k, in the order of F
Members(F, k) ==
    SelectSeq(F, LAMBDA f : ~Ineligible(f) /\ group_by_criteria(f) = k)

RECURSIVE PatternsInOrder(_, _, _)
\* walking F from position i: the pattern strings of the members of class k
PatternsInOrder(F, k, i) ==
    IF i > Len(F) THEN <<>>
    ELSE (IF i \in Class(F, k) THEN F[i].filter.pats ELSE <<>>)
             \o PatternsInOrder(F, k, i + 1)

RECURSIVE LinesInOrder(_, _, _, _)
\* walking F from position i: acc <+> line <+> line ... over the members of
\* class k that have a source line; acc is None until the first one
LinesInOrder(F, k, i, acc) ==
    IF i > Len(F) THEN acc
    ELSE IF i \in Class(F, k) /\ F[i].raw_line # None
         THEN LinesInOrder(F, k, i + 1,
                  IF acc = None THEN F[i].raw_line
                  ELSE Some(acc[1] \o " <+> " \o F[i].raw_line[1]))
         ELSE LinesInOrder(F, k, i + 1, acc)

\* the grouping key of the n-th group handed to fusion
CallKey(n) == group_by_criteria(fusion_calls[n][1])

Calls == 1..Len(fusion_calls)

(***************************************************************************)
(* C1. Soundness: once optimize has returned, a request matches some       *)
(* filter of the output iff it matches some filter of the input.           *)
(***************************************************************************)
C1_Soundness ==
    Done => \A R \in Requests : MatchesAny(output, R) <=> MatchesAny(filters, R)

C1_Witness ==
    /\ Done
    /\ \E R \in Requests : \E i \in 1..Len(fused) :
          /\ Matches(fused[i], R)
          /\ ~Matches(fusion_calls[i][1], R)
    /\ \E R \in Requests : ~MatchesAny(output, R)

(***************************************************************************)
(* C2. Idempotence as claimed: the second run of optimize, on the output   *)
(* of the first, returns as many filters as it was given.                  *)
(***************************************************************************)
C2_Idempotence ==
    (Done /\ round = 2) => Len(output) = Len(first_output)

\* F holds two eligible filters with the same flags, IS_REGEX clear, and an
\* eligible filter with the same flags but IS_REGEX set
RegexTwin(F) ==
    \E i, j, l \in 1..Len(F) :
        /\ i # j
        /\ ~Ineligible(F[i]) /\ ~Ineligible(F[j]) /\ ~Ineligible(F[l])
        /\ F[i].mask = F[j].mask
        /\ ~is_regex(F[i])
        /\ F[l].mask = F[i].mask + IS_REGEX

(***************************************************************************)
(* C2, amended. The second run never returns more filters than it was      *)
(* given, and returns fewer exactly when the first input held two eligible *)
(* filters with equal flags and IS_REGEX clear next to an eligible filter  *)
(* with the same flags and IS_REGEX set.                                   *)
(***************************************************************************)
C2_IdempotenceUnlessRegexTwin ==
    (Done /\ round = 2) =>
        /\ Len(output) <= Len(first_output)
        /\ (Len(output) = Len(first_output)) <=> ~RegexTwin(first_input)

C2_Witness ==
    /\ Done
    /\ round = 2
    /\ RegexTwin(first_input)
    /\ Len(output) < Len(first_output)

(***************************************************************************)
(* C3. Count reduction: the output is never longer than the input, and is  *)
(* shorter when two selected filters of the input share a grouping key.    *)
(***************************************************************************)
C3_CountReduction ==
    Done =>
        /\ Len(output) <= Len(filters)
        /\ (\E i, j \in 1..Len(filters) :
                /\ i # j
                /\ select(filters[i]) /\ select(filters[j])
                /\ group_by_criteria(filters[i]) = group_by_criteria(filters[j]))
            => Len(output) < Len(filters)

C3_Witness == Done /\ Len(output) + 2 <= Len(filters)

(***************************************************************************)
(* C4. Ineligibility passthrough: an ineligible input filter occurs in the *)
(* output, and in the passthrough part, as often as in the input, is       *)
(* never a fused filter and is in no group handed to fusion.               *)
(***************************************************************************)
C4_IneligiblePassthrough ==
    Done =>
        \A i \in 1..Len(filters) :
            Ineligible(filters[i]) =>
                /\ Count(output, filters[i]) = Count(filters, filters[i])
                /\ Count(negative, filters[i]) = Count(filters, filters[i])
                /\ Count(fused, filters[i]) = 0
                /\ \A n \in Calls : Count(fusion_calls[n], filters[i]) = 0

\* a filter with a bug-id between two filters that are fused, with their key
C4_Witness ==
    /\ Done
    /\ Len(fused) = 1
    /\ has_bug(filters[2])
    /\ group_by_criteria(filters[2]) = CallKey(1)
    /\ Count(output, filters[2]) = 1

(***************************************************************************)
(* C5. Singleton passthrough: an eligible input filter that shares its     *)
(* grouping key with no other eligible input filter is in the passthrough  *)
(* part of the output, unchanged, and was not handed to fusion.            *)
(***************************************************************************)
C5_SingletonPassthrough ==
    Done =>
        \A i \in 1..Len(filters) :
            (/\ ~Ineligible(filters[i])
             /\ Class(filters, group_by_criteria(filters[i])) = {i})
            => /\ Count(negative, filters[i]) = 1
               /\ \E n \in Len(fused) + 1..Len(output) : output[n] = filters[i]
               /\ \A n \in Calls : Count(fusion_calls[n], filters[i]) = 0

C5_Witness ==
    /\ Done
    /\ fused # <<>>
    /\ \E i \in 1..Len(filters) :
          /\ ~Ineligible(filters[i])
          /\ ~is_regex(filters[i])
          /\ Class(filters, group_by_criteria(filters[i])) = {i}

(***************************************************************************)
(* C6. Output shape: the output starts with one fused filter per grouping  *)
(* key shared by two or more eligible input filters, each the fusion of    *)
(* all of that key's filters, and continues with exactly the passthrough   *)
(* filters (ineligible ones and singleton classes).                        *)
(***************************************************************************)
C6_OutputShape ==
    Done =>
        LET n == Cardinality(SharedKeys(filters))
            rest == SubSeq(output, n + 1, Len(output))
        IN /\ Len(fusion_calls) = n
           /\ {fusion_calls[i] : i \in Calls}
                  = {Members(filters, k) : k \in SharedKeys(filters)}
           /\ Len(output) = n + Cardinality(PassIdx(filters))
           /\ \A i \in 1..n : output[i] = fusion(fusion_calls[i])
           /\ \A i \in PassIdx(filters) :
                  Count(rest, filters[i])
                      = Cardinality({j \in PassIdx(filters) :
                                        filters[j] = filters[i]})

\* a singleton class ahead of a fused class in the input, behind it in the
\* output
C6_Witness ==
    /\ Done
    /\ Len(fused) = 1
    /\ 1 \in PassIdx(filters)
    /\ ~Ineligible(filters[1])
    /\ output = <<fused[1], filters[1]>>

(***************************************************************************)
(* C7. Ordered pattern union: a fused filter whose group has no no-pattern *)
(* member holds the members' pattern strings in input order; a single      *)
(* string gives Simple, otherwise AnyOf with at least two strings.         *)
(***************************************************************************)
C7_OrderedPatternUnion ==
    \A n \in 1..Len(fused) :
        (\A m \in 1..Len(fusion_calls[n]) :
            fusion_calls[n][m].filter.kind # "Empty")
        => LET seq == PatternsInOrder(filters, CallKey(n), 1)
           IN IF Len(seq) = 1
              THEN fused[n].filter = Simple(seq[1])
              ELSE /\ fused[n].filter = AnyOf(seq)
                   /\ Len(seq) >= 2

C7_Witness ==
    \E n \in 1..Len(fused) :
        /\ fusion_calls[n][1].filter.kind = "Simple"
        /\ fusion_calls[n][2].filter.kind = "AnyOf"
        /\ fused[n].filter.kind = "AnyOf"
        /\ Len(fused[n].filter.pats) = 3

(***************************************************************************)
(* C8. Provenance: when the first member of a fused group has a source     *)
(* line, the fused filter's source line is the members' source lines in    *)
(* input order joined with " <+> ", members without one skipped; when it   *)
(* has none, the fused filter has none.                                    *)
(***************************************************************************)
C8_Provenance ==
    \A n \in 1..Len(fused) :
        LET first == CHOOSE i \in Class(filters, CallKey(n)) :
                         \A j \in Class(filters, CallKey(n)) : i <= j
        IN IF filters[first].raw_line # None
           THEN fused[n].raw_line = LinesInOrder(filters, CallKey(n), 1, None)
           ELSE fused[n].raw_line = None

C8_Witness ==
    \E n \in 1..Len(fused) :
        /\ Len(fusion_calls[n]) = 3
        /\ fusion_calls[n][1].raw_line # None
        /\ fusion_calls[n][2].raw_line = None
        /\ fusion_calls[n][3].raw_line # None
        /\ fused[n].raw_line
               = Some(fusion_calls[n][1].raw_line[1] \o " <+> "
                          \o fusion_calls[n][3].raw_line[1])

(***************************************************************************)
(* C9. Fusion precondition: every group handed to fusion has at least two  *)
(* members.                                                                *)
(***************************************************************************)
C9_FusionPrecondition ==
    \A n \in Calls : Len(fusion_calls[n]) >= 2

C9_Witness ==
    /\ Done
    /\ fusion_calls # <<>>
    /\ \E i \in 1..Len(filters) :
          /\ ~Ineligible(filters[i])
          /\ Class(filters, group_by_criteria(filters[i])) = {i}

(***************************************************************************)
(* C10. No-pattern subsumption: a fused filter whose group has a           *)
(* no-pattern member, at any position, has the no-pattern variant.         *)
(***************************************************************************)
C10_NoPatternSubsumption ==
    \A n \in 1..Len(fused) :
        (\E m \in 1..Len(fusion_calls[n]) :
            fusion_calls[n][m].filter.kind = "Empty")
        => fused[n].filter = Empty

C10_Witness ==
    \E n \in 1..Len(fused) :
        /\ fusion_calls[n][1].filter.kind = "Simple"
        /\ fusion_calls[n][Len(fusion_calls[n])].filter.kind = "Empty"
        /\ fused[n].filter = Empty

====
